---- MODULE Spec2Model ----
(***************************************************************************)
(* Model of the EdgeDB Go client's connection handshake                    *)
(* (baseConn.connect / baseConn.authenticate, connect.go) and of the       *)
(* message reader of protocol/buff that it reads server messages with.     *)
(*                                                                         *)
(* Bytes are naturals in 0..255, byte strings and Go strings are sequences *)
(* of bytes, error and panic texts are TLA+ strings.                       *)
(***************************************************************************)
EXTENDS Integers, Sequences, FiniteSets, TLC

VARIABLES
    \* ---- one connect call ----
    pc,          \* position of the call: "start", "connect", "authenticate",
                 \* "auth_first", "auth_loop", "done"
    cfg,         \* connConfig: [database, user, password]
    buf,         \* connect's buffer:      [MsgType, msg (unread bytes), n (messages taken)]
    abuf,        \* authenticate's buffer: same shape
    conv,        \* state of the scram client conversation
    written,     \* the byte strings handed to the transport, in order
    closeCalled, \* c.conn.Close() was called
    keyData,     \* the key data the connection keeps
    result,      \* what connect returned: [kind, text, data]
    hist,        \* observations of the call, for the properties (history)
    \* ---- one Message of the reader ----
    m,           \* the message: [Type, bts]
    pre,         \* m.bts before the last operation
    ret          \* the last operation: [op, arg, ok, val, text]

vars == <<pc, cfg, buf, abuf, conv, written, closeCalled, keyData, result, hist,
          m, pre, ret>>

connVars == <<pc, cfg, buf, abuf, conv, written, closeCalled, keyData, result, hist>>
msgVars  == <<m, pre, ret>>

-----------------------------------------------------------------------------
(* Bounds *)

\* the largest number of messages one buffered server reply holds
MaxReply == 4
\* the largest number of bytes of an enumerated reader message
MaxLen == 5

-----------------------------------------------------------------------------
(* Bytes, integers and text *)

Take(s, n) == SubSeq(s, 1, n)
Drop(s, n) == SubSeq(s, n + 1, Len(s))

\* big-endian value of a byte string (binary.BigEndian.UintNN)
RECURSIVE BE(_)
BE(s) == IF Len(s) = 0 THEN 0 ELSE BE(Take(s, Len(s) - 1)) * 256 + s[Len(s)]

\* big-endian encoding of the low n bytes of v (PushUint16 / PushUint32)
RECURSIVE PushUint(_, _)
PushUint(v, n) == IF n = 0 THEN <<>> ELSE PushUint(v \div 256, n - 1) \o <<v % 256>>

PushUint16(v) == PushUint(v, 2)
PushUint32(v) == PushUint(v, 4)

\* a length-prefixed string or byte string (PushString / PushBytes)
PushString(s) == PushUint32(Len(s)) \o s

\* fmt's %x and %v of an unsigned integer
HexDigit(d) == SubSeq("0123456789abcdef", d + 1, d + 1)
RECURSIVE Hex(_)
Hex(n) == IF n < 16 THEN HexDigit(n) ELSE Hex(n \div 16) \o HexDigit(n % 16)
RECURSIVE Dec(_)
Dec(n) == IF n < 10 THEN HexDigit(n) ELSE Dec(n \div 10) \o HexDigit(n % 10)

-----------------------------------------------------------------------------
(* The message reader (protocol/buff): every operation takes the unread    *)
(* bytes of the message and yields [ok, val, rest]; ok = FALSE is a panic. *)

Underrun(bts) == [ok |-> FALSE, val |-> 0, rest |-> bts]

\* little-endian value of a byte string
RECURSIVE LE(_)
LE(s) == IF Len(s) = 0 THEN 0 ELSE s[1] + 256 * LE(Drop(s, 1))

\* variant: the bytes are read in little-endian order
PopUintLittleEndian(bts, n) ==
    IF Len(bts) < n THEN Underrun(bts)
    ELSE [ok |-> TRUE, val |-> LE(Take(bts, n)), rest |-> Drop(bts, n)]

PopUint(bts, n) ==
    IF Len(bts) < n THEN Underrun(bts)
    ELSE [ok |-> TRUE, val |-> BE(Take(bts, n)), rest |-> Drop(bts, n)]

PopUint8(bts)  == PopUint(bts, 1)
PopUint16(bts) == PopUint(bts, 2)
PopUint32(bts) == PopUint(bts, 4)
PopUint64(bts) == PopUint(bts, 8)

\* variant: the peeked bytes are consumed
PeekUint32Consuming(bts) ==
    IF Len(bts) < 4 THEN Underrun(bts)
    ELSE [ok |-> TRUE, val |-> BE(Take(bts, 4)), rest |-> Drop(bts, 4)]

PeekUint32(bts) ==
    IF Len(bts) < 4 THEN Underrun(bts)
    ELSE [ok |-> TRUE, val |-> BE(Take(bts, 4)), rest |-> bts]

PopUUID(bts) ==
    IF Len(bts) < 16 THEN Underrun(bts)
    ELSE [ok |-> TRUE, val |-> Take(bts, 16), rest |-> Drop(bts, 16)]

Discard(bts, n) ==
    IF Len(bts) < n THEN Underrun(bts)
    ELSE [ok |-> TRUE, val |-> 0, rest |-> Drop(bts, n)]

\* variant: a declared length longer than the unread bytes is cut to them
PopBytesTruncating(bts) ==
    LET l == PopUint32(bts)
        k == IF Len(l.rest) < l.val THEN Len(l.rest) ELSE l.val
    IN  IF ~l.ok THEN Underrun(bts)
        ELSE [ok |-> TRUE, val |-> Take(l.rest, k), rest |-> Drop(l.rest, k)]

PopBytes(bts) ==
    LET l == PopUint32(bts) IN
    IF ~l.ok THEN Underrun(bts)
    ELSE IF Len(l.rest) < l.val THEN Underrun(l.rest)
    ELSE [ok |-> TRUE, val |-> Take(l.rest, l.val), rest |-> Drop(l.rest, l.val)]

\* a Go string is the bytes it was converted from
PopString(bts) == PopBytes(bts)

FinishText(type) ==
    "cannot finish: unread data in buffer (message type: 0x" \o Hex(type) \o ")"

\* variant: one unread byte is let through
FinishLenient(type, bts) ==
    IF Len(bts) > 1 THEN [ok |-> FALSE, text |-> FinishText(type)]
    ELSE [ok |-> TRUE, text |-> ""]

\* Finish: [ok, text]
Finish(type, bts) ==
    IF Len(bts) > 0 THEN [ok |-> FALSE, text |-> FinishText(type)]
    ELSE [ok |-> TRUE, text |-> ""]

-----------------------------------------------------------------------------
(* Message type tags (package message) and the numbers connect.go names *)

ClientHandshake                   == 86     \* 'V'
AuthenticationSASLInitialResponse == 112    \* 'p'
AuthenticationSASLResponse        == 114    \* 'r'
ServerHandshake                   == 118    \* 'v'
ServerKeyData                     == 75     \* 'K'
ReadyForCommand                   == 90     \* 'Z'
Authentication                    == 82     \* 'R'
ErrorResponse                     == 69     \* 'E'

ProtocolMajor == 0
ProtocolMinor == 8
NumParams     == 2
KeyDataLen    == 32
AuthStatusOK  == 0
SASLContinue  == 11
SASLFinal     == 12

\* "database", "user", "SCRAM-SHA-256"
StrDatabase == <<100, 97, 116, 97, 98, 97, 115, 101>>
StrUser     == <<117, 115, 101, 114>>
StrScram    == <<83, 67, 82, 65, 77, 45, 83, 72, 65, 45, 50, 53, 54>>

-----------------------------------------------------------------------------
(* Errors and results: [kind, text, data] *)

None == [kind |-> "none", text |-> "", data |-> <<>>]
Nil  == [kind |-> "nil", text |-> "", data |-> <<>>]

Err(kind, text) == [kind |-> kind, text |-> text, data |-> <<>>]

UnsupportedVersion(major, minor) ==
    Err("version", "unsupported protocol version: " \o Dec(major) \o "." \o Dec(minor))

UnexpectedType(type) == Err("type", "unexpected message type: 0x" \o Hex(type))

UnexpectedStatus(status) ==
    Err("status", "unexpected authentication status: 0x" \o Hex(status))

CloseError == Err("close", "close failed")

Panic(text) == Err("panic", text)

UnderrunPanic == Panic("buffer underrun")

\* decodeError: the structured error carried by an error-response payload
DecodeError(bts) == [kind |-> "server", text |-> "", data |-> bts]

\* the failures of writeAndRead
IoOutcomes == {"ok", "context deadline exceeded", "context canceled"}
IoError(io) == Err("io", io)

-----------------------------------------------------------------------------
(* The writer side of the buffer *)

\* BeginMessage(type) ... pushes ... EndMessage(): the tag, the back-patched
\* length (itself included, the tag excluded), the payload
Frame(type, payload) == <<type>> \o PushUint32(Len(payload) + 4) \o payload

\* variant: the two parameters are pushed in the other order
ClientHandshakeMsgSwapped(c) ==
    Frame(ClientHandshake,
          PushUint16(ProtocolMajor) \o PushUint16(ProtocolMinor)
          \o PushUint16(NumParams)
          \o PushString(StrUser) \o PushString(c.user)
          \o PushString(StrDatabase) \o PushString(c.database)
          \o PushUint16(0))

ClientHandshakeMsg(c) ==
    Frame(ClientHandshake,
          PushUint16(ProtocolMajor) \o PushUint16(ProtocolMinor)
          \o PushUint16(NumParams)
          \o PushString(StrDatabase) \o PushString(c.database)
          \o PushString(StrUser) \o PushString(c.user)
          \o PushUint16(0))

SASLInitialResponseMsg(scramMsg) ==
    Frame(AuthenticationSASLInitialResponse,
          PushString(StrScram) \o PushString(scramMsg))

SASLResponseMsg(scramMsg) ==
    Frame(AuthenticationSASLResponse, PushString(scramMsg))

\* the tag of a framed message
TypeOf(framed) == framed[1]

-----------------------------------------------------------------------------
(* The SCRAM client conversation (github.com/xdg/scram) *)

ServerFirstGood == <<114, 61, 49>>   \* "r=1"
ServerFirstBad  == <<120>>           \* "x"
ServerFinalGood == <<118, 61, 49>>   \* "v=1"
ServerFinalBad  == <<101, 61, 49>>   \* "e=1"

ClientFirst(user) == <<110, 44, 44, 110, 61>> \o user   \* "n,,n=" user
ClientFinal       == <<99, 61, 112>>                    \* "c=p"

NoConv   == [state |-> "none", valid |-> FALSE]
NewConv  == [state |-> "starting", valid |-> FALSE]

\* scram.SHA256.NewClient: SASLprep rejects prohibited characters
NewClientOK(user, password) ==
    /\ \A i \in 1..Len(user) : user[i] # 0
    /\ \A i \in 1..Len(password) : password[i] # 0

\* conv.Step(challenge): [ok, msg, conv, err]
Step(c, user, challenge) ==
    CASE c.state = "starting" ->
            [ok |-> TRUE, msg |-> ClientFirst(user),
             conv |-> [state |-> "first", valid |-> FALSE], err |-> Nil]
      [] c.state = "first" ->
            IF challenge = ServerFirstGood
            THEN [ok |-> TRUE, msg |-> ClientFinal,
                  conv |-> [state |-> "final", valid |-> FALSE], err |-> Nil]
            ELSE [ok |-> FALSE, msg |-> <<>>,
                  conv |-> [state |-> "final", valid |-> FALSE],
                  err |-> Err("scram", "invalid server-first message")]
      [] c.state = "final" ->
            IF challenge = ServerFinalGood
            THEN [ok |-> TRUE, msg |-> <<>>,
                  conv |-> [state |-> "done", valid |-> TRUE], err |-> Nil]
            ELSE [ok |-> FALSE, msg |-> <<>>,
                  conv |-> [state |-> "done", valid |-> FALSE],
                  err |-> Err("scram", "server validation failed")]
      [] OTHER ->
            [ok |-> FALSE, msg |-> <<>>, conv |-> c,
             err |-> Err("scram", "Conversation already completed")]

-----------------------------------------------------------------------------
(* The server messages a buffered reply is made of: [Type, bts] *)

Zeros(n) == [i \in 1..n |-> 0]
Iota(n)  == [i \in 1..n |-> i]

SH(major, minor) ==
    [Type |-> ServerHandshake, bts |-> PushUint16(major) \o PushUint16(minor)]
KD(token) == [Type |-> ServerKeyData, bts |-> token]
RFC(headers, tx) ==
    [Type |-> ReadyForCommand, bts |-> PushUint16(headers) \o <<tx>>]
Auth(status, tail) ==
    [Type |-> Authentication, bts |-> PushUint32(status) \o tail]
\* authentication-required: the status, the method count, the method names
AuthSASL(methods) ==
    Auth(10, PushUint32(Len(methods))
             \o (IF Len(methods) = 0 THEN <<>>
                 ELSE IF Len(methods) = 1 THEN PushString(methods[1])
                 ELSE PushString(methods[1]) \o PushString(methods[2])))

Versions == {<<0, 8>>, <<0, 9>>, <<1, 8>>, <<1, 0>>, <<0, 7>>}

Auth0     == Auth(AuthStatusOK, <<>>)
Ready0    == RFC(0, 73)

WellFormedMsgs ==
    {SH(v[1], v[2]) : v \in Versions}
    \cup {KD(Zeros(KeyDataLen)), KD(Iota(KeyDataLen))}
    \cup {Ready0}
    \cup {Auth0,
          AuthSASL(<<StrScram>>), AuthSASL(<<>>), AuthSASL(<<<<80>>, <<81>>>>),
          Auth(SASLContinue, PushString(ServerFirstGood)),
          Auth(SASLContinue, PushString(ServerFirstBad)),
          Auth(SASLFinal, PushString(ServerFinalGood)),
          Auth(SASLFinal, PushString(ServerFinalBad))}
    \cup {[Type |-> ErrorResponse, bts |-> <<120, 0, 0, 0, 1>>],
          [Type |-> ErrorResponse, bts |-> <<>>]}
    \cup {[Type |-> 84, bts |-> <<>>], [Type |-> 68, bts |-> <<1>>]}

\* payloads shorter or longer than the fields their handler reads
MalformedMsgs ==
    {[Type |-> ServerHandshake, bts |-> <<0, 0, 0>>],
     [Type |-> ServerHandshake, bts |-> <<0, 0, 0, 8, 0, 0>>],
     KD(Zeros(KeyDataLen - 1)),
     KD(Zeros(KeyDataLen + 1)),
     [Type |-> ReadyForCommand, bts |-> <<0, 1, 73, 0, 1, 0, 0, 0, 0>>],
     [Type |-> Authentication, bts |-> <<0, 0>>],
     Auth(AuthStatusOK, <<1>>),
     Auth(10, PushUint32(1) \o PushString(<<80>>) \o <<0>>),
     Auth(SASLContinue, PushUint32(9) \o <<114>>),
     Auth(SASLContinue, PushString(ServerFirstGood) \o <<0>>),
     Auth(SASLFinal, PushUint32(9) \o <<118>>)}

ServerMsgs == WellFormedMsgs \cup MalformedMsgs

\* the trust-auth reply of the protocol documentation
TrustScenario == <<SH(0, 8), KD(Zeros(KeyDataLen)), Auth0, Ready0>>

-----------------------------------------------------------------------------
(* connect's switch (connect.go 46-88): each case takes the payload and    *)
(* yields [k, err, rest, close]; k is "next" (the loop goes on), "return", *)
(* "panic" or "auth" (authenticate is called).                             *)

Out(k, err, rest, close) == [k |-> k, err |-> err, rest |-> rest, close |-> close]

\* variant: the version test with "and" for "or"
VersionSupportedEither(major, minor) ==
    ~(major # ProtocolMajor /\ minor # ProtocolMinor)

VersionSupported(major, minor) ==
    ~(major # ProtocolMajor \/ minor # ProtocolMinor)

OnServerHandshake(bts, closeOK) ==
    LET major == PopUint16(bts)
        minor == PopUint16(major.rest)
    IN  IF ~major.ok \/ ~minor.ok THEN Out("panic", UnderrunPanic, bts, FALSE)
        ELSE IF ~VersionSupported(major.val, minor.val)
        THEN IF ~closeOK THEN Out("return", CloseError, minor.rest, TRUE)
             ELSE Out("return", UnsupportedVersion(major.val, minor.val),
                      minor.rest, TRUE)
        ELSE Out("next", None, minor.rest, FALSE)

OnServerKeyData(bts) ==
    LET d == Discard(bts, KeyDataLen)
    IN  IF ~d.ok THEN Out("panic", UnderrunPanic, bts, FALSE)
        ELSE Out("next", None, d.rest, FALSE)

OnReadyForCommand(bts) ==
    LET headers == PopUint16(bts)
        tx      == PopUint8(headers.rest)
    IN  IF ~headers.ok \/ ~tx.ok THEN Out("panic", UnderrunPanic, bts, FALSE)
        ELSE Out("next", None, tx.rest, FALSE)

\* variant: one name more than the count is skipped
RECURSIVE SkipMethodsOneMore(_, _)
SkipMethodsOneMore(bts, n) ==
    LET p == PopBytes(bts)
    IN  IF ~p.ok THEN Underrun(bts)
        ELSE IF n = 0 THEN [ok |-> TRUE, val |-> 0, rest |-> p.rest]
        ELSE SkipMethodsOneMore(p.rest, n - 1)

\* for i := 0; i < n; i++ { buf.PopBytes() }
RECURSIVE SkipMethods(_, _)
SkipMethods(bts, n) ==
    IF n = 0 THEN [ok |-> TRUE, val |-> 0, rest |-> bts]
    ELSE LET p == PopBytes(bts)
         IN  IF ~p.ok THEN Underrun(bts) ELSE SkipMethods(p.rest, n - 1)

\* variant: the "status 0, continue" test is missing
OnAuthenticationNoContinue(bts) ==
    LET status == PopUint32(bts)
        n      == PopUint32(status.rest)
        skip   == SkipMethods(n.rest, n.val)
    IN  IF ~status.ok THEN Out("panic", UnderrunPanic, bts, FALSE)
        ELSE IF ~n.ok \/ ~skip.ok THEN Out("panic", UnderrunPanic, bts, FALSE)
        ELSE Out("auth", None, skip.rest, FALSE)

\* variant: authenticate is called whatever the status
OnAuthenticationAlways(bts) ==
    LET status == PopUint32(bts)
        n      == PopUint32(status.rest)
        skip   == SkipMethods(n.rest, n.val)
    IN  IF ~status.ok THEN Out("panic", UnderrunPanic, bts, FALSE)
        ELSE IF status.val = AuthStatusOK THEN Out("auth", None, status.rest, FALSE)
        ELSE IF ~n.ok \/ ~skip.ok THEN Out("panic", UnderrunPanic, bts, FALSE)
        ELSE Out("auth", None, skip.rest, FALSE)

OnAuthentication(bts) ==
    LET status == PopUint32(bts)
        n      == PopUint32(status.rest)
        skip   == SkipMethods(n.rest, n.val)
    IN  IF ~status.ok THEN Out("panic", UnderrunPanic, bts, FALSE)
        ELSE IF status.val = AuthStatusOK THEN Out("next", None, status.rest, FALSE)
        ELSE IF ~n.ok \/ ~skip.ok THEN Out("panic", UnderrunPanic, bts, FALSE)
        ELSE Out("auth", None, skip.rest, FALSE)

\* variant: the error-response is read over and the loop goes on
OnErrorResponseSkip(bts) == Out("next", None, <<>>, FALSE)

OnErrorResponse(bts) == Out("return", DecodeError(bts), bts, FALSE)

\* variant: a message of an unknown type is skipped
OnDefaultSkip(type, bts) == Out("next", None, <<>>, FALSE)

OnDefault(type, bts) == Out("return", UnexpectedType(type), bts, FALSE)

ConnectCase(type, bts, closeOK) ==
    CASE type = ServerHandshake -> OnServerHandshake(bts, closeOK)
      [] type = ServerKeyData   -> OnServerKeyData(bts)
      [] type = ReadyForCommand -> OnReadyForCommand(bts)
      [] type = Authentication  -> OnAuthentication(bts)
      [] type = ErrorResponse   -> OnErrorResponse(bts)
      [] OTHER                  -> OnDefault(type, bts)

-----------------------------------------------------------------------------
(* authenticate's two switches: [k, err, rest, conv, msg] *)

AOut(k, err, rest, c, msg) ==
    [k |-> k, err |-> err, rest |-> rest, conv |-> c, msg |-> msg]

\* variant: status 0 is let through as well
IsSASLContinueOrOK(authStatus) ==
    authStatus = SASLContinue \/ authStatus = AuthStatusOK

\* connect.go 120: the status the first reply must carry
IsSASLContinue(authStatus) == ~(authStatus # SASLContinue)

\* connect.go 117-137: the message read after the SASL-initial-response,
\* then buf.Finish()
AuthFirstCase(type, bts, c, user) ==
    IF type = Authentication THEN
        LET status == PopUint32(bts)
            rcv    == PopString(status.rest)
            st     == Step(c, user, rcv.val)
        IN  IF ~status.ok THEN AOut("panic", UnderrunPanic, bts, c, <<>>)
            ELSE IF ~IsSASLContinue(status.val)
            THEN AOut("return", UnexpectedStatus(status.val), status.rest, c, <<>>)
            ELSE IF ~rcv.ok THEN AOut("panic", UnderrunPanic, bts, c, <<>>)
            ELSE IF ~st.ok THEN AOut("return", st.err, rcv.rest, st.conv, <<>>)
            ELSE IF ~Finish(type, rcv.rest).ok
            THEN AOut("panic", Panic(Finish(type, rcv.rest).text), rcv.rest,
                      st.conv, <<>>)
            ELSE AOut("next", None, rcv.rest, st.conv, st.msg)
    ELSE IF type = ErrorResponse THEN AOut("return", DecodeError(bts), bts, c, <<>>)
    ELSE AOut("return", UnexpectedType(type), bts, c, <<>>)

\* variant: the error of the last conv.Step is dropped
OnAuthStatusIgnoreErr(bts, c, user) ==
    LET status == PopUint32(bts)
        rcv    == PopString(status.rest)
        st     == Step(c, user, rcv.val)
    IN  IF ~status.ok THEN AOut("panic", UnderrunPanic, bts, c, <<>>)
        ELSE IF status.val = AuthStatusOK
        THEN AOut("next", None, status.rest, c, <<>>)
        ELSE IF status.val = SASLFinal
        THEN IF ~rcv.ok THEN AOut("panic", UnderrunPanic, bts, c, <<>>)
             ELSE AOut("next", None, rcv.rest, st.conv, <<>>)
        ELSE AOut("return", UnexpectedStatus(status.val), status.rest, c, <<>>)

\* connect.go 151-166: an authentication message of the final loop
OnAuthStatus(bts, c, user) ==
    LET status == PopUint32(bts)
        rcv    == PopString(status.rest)
        st     == Step(c, user, rcv.val)
    IN  IF ~status.ok THEN AOut("panic", UnderrunPanic, bts, c, <<>>)
        ELSE IF status.val = AuthStatusOK
        THEN AOut("next", None, status.rest, c, <<>>)
        ELSE IF status.val = SASLFinal
        THEN IF ~rcv.ok THEN AOut("panic", UnderrunPanic, bts, c, <<>>)
             ELSE IF ~st.ok THEN AOut("return", st.err, rcv.rest, st.conv, <<>>)
             ELSE AOut("next", None, rcv.rest, st.conv, <<>>)
        ELSE AOut("return", UnexpectedStatus(status.val), status.rest, c, <<>>)

Lift(o, c) == AOut(o.k, o.err, o.rest, c, <<>>)

\* connect.go 150-176
AuthLoopCase(type, bts, c, user) ==
    CASE type = Authentication  -> OnAuthStatus(bts, c, user)
      [] type = ServerKeyData   -> Lift(OnServerKeyData(bts), c)
      [] type = ReadyForCommand -> Lift(OnReadyForCommand(bts), c)
      [] type = ErrorResponse   -> Lift(OnErrorResponse(bts), c)
      [] OTHER                  -> Lift(OnDefault(type, bts), c)

-----------------------------------------------------------------------------
(* One connect call.                                                        *)
(*                                                                         *)
(* writeAndRead either fails or leaves a reply of 1..MaxReply framed       *)
(* messages in the buffer.  The reply is any sequence over ServerMsgs; the *)
(* buffer keeps the count n of messages Next has taken and the unread      *)
(* bytes of the current one, and each Next takes the following message of  *)
(* the reply or finds the reply exhausted.                                 *)

Databases == {<<100>>, <<>>}
Users     == {<<117>>, <<0>>}
Passwords == {<<112>>}

EmptyBuf == [MsgType |-> 0, msg |-> <<>>, n |-> 0]
NoMsg    == [at |-> "none", Type |-> 0, bts |-> <<>>, w |-> 0]
NewMsg   == [Type |-> 0, bts |-> <<>>]
NoOp     == [op |-> "new", arg |-> 0, ok |-> TRUE, val |-> 0, text |-> ""]

InitHist ==
    [last        |-> NoMsg,    \* the message Next made current last, where, and
                               \* how many messages the client had written
     ready       |-> FALSE,    \* a ready-for-command message was consumed
     trust       |-> 0,        \* leading messages of connect's reply that follow
                               \* TrustScenario; -1 once the reply leaves it
     scram       |-> FALSE,    \* the SASL exchange was started
     closeFailed |-> FALSE,    \* c.conn.Close() returned an error
     rejected    |-> FALSE,    \* the stepper rejected the last SASL-final string
     keySent     |-> <<>>,     \* the token of the last key-data message consumed
     challenges  |-> 0,        \* authentication messages of a nonzero status
                               \* taken by connect's loop
     io          |-> "ok"]     \* the outcome of the last writeAndRead

InitConn ==
    /\ pc = "start"
    /\ cfg \in [database : Databases, user : Users, password : Passwords]
    /\ buf = EmptyBuf
    /\ abuf = EmptyBuf
    /\ conv = NoConv
    /\ written = <<>>
    /\ closeCalled = FALSE
    /\ keyData = <<>>
    /\ result = None
    /\ hist = InitHist

Init ==
    /\ InitConn
    /\ m = NewMsg
    /\ pre = <<>>
    /\ ret = NoOp

\* variant: Next() steps over what is left of the current message
UnreadNever(b) == FALSE

\* Next() finds the current message only partly read
Unread(b) == Len(b.msg) > 0

\* variant: a return inside a read loop does not leave the loop
ReturnInLoop(err) ==
    /\ pc' = IF pc \in {"connect", "auth_loop"} THEN pc ELSE "done"
    /\ result' = err

Return(err) ==
    /\ pc' = "done"
    /\ result' = err

\* variant: the error of writeAndRead is dropped
FailedNever(io) == FALSE

\* connect.go 41, 112, 145: err != nil after writeAndRead
Failed(io) == io # "ok"

\* connect.go 28-43: the client handshake, then writeAndRead
Connect ==
    /\ pc = "start"
    /\ written' = Append(written, ClientHandshakeMsg(cfg))
    /\ \E io \in IoOutcomes :
         /\ hist' = [hist EXCEPT !.io = io]
         /\ IF ~Failed(io)
            THEN pc' = "connect" /\ buf' = EmptyBuf /\ UNCHANGED result
            ELSE Return(IoError(io)) /\ UNCHANGED buf
    /\ UNCHANGED <<cfg, abuf, conv, closeCalled, keyData, msgVars>>

\* connect.go 45-91: one turn of "for buf.Next()"
ConnectLoop ==
    /\ pc = "connect"
    /\ \/ /\ Unread(buf)
          /\ Return(Panic(FinishText(buf.MsgType)))
          /\ UNCHANGED <<buf, closeCalled, hist>>
       \/ /\ ~Unread(buf)
          /\ buf.n >= 1
          /\ Return(Nil)
          /\ UNCHANGED <<buf, closeCalled, hist>>
       \/ /\ ~Unread(buf)
          /\ buf.n < MaxReply
          /\ \E sm \in ServerMsgs, closeOK \in BOOLEAN :
               LET o == ConnectCase(sm.Type, sm.bts, closeOK) IN
               /\ buf' = [MsgType |-> sm.Type, msg |-> o.rest, n |-> buf.n + 1]
               /\ closeCalled' = (closeCalled \/ o.close)
               /\ hist' = [hist EXCEPT
                     !.last = [at |-> "connect", Type |-> sm.Type, bts |-> sm.bts,
                                w |-> Len(written)],
                     !.ready = @ \/ (sm.Type = ReadyForCommand /\ o.k = "next"),
                     !.trust = IF @ = buf.n /\ buf.n < Len(TrustScenario)
                                  /\ sm = TrustScenario[buf.n + 1]
                               THEN buf.n + 1 ELSE -1,
                     !.closeFailed = @ \/ (o.close /\ ~closeOK),
                     !.keySent = IF sm.Type = ServerKeyData /\ o.k = "next"
                                 THEN Take(sm.bts, KeyDataLen) ELSE @,
                     !.challenges = IF sm.Type = Authentication
                                       /\ Len(sm.bts) >= 4
                                       /\ BE(Take(sm.bts, 4)) # 0
                                    THEN @ + 1 ELSE @]
               /\ IF o.k = "next" THEN pc' = "connect" /\ UNCHANGED result
                  ELSE IF o.k = "auth" THEN pc' = "authenticate" /\ UNCHANGED result
                  ELSE Return(o.err)
    /\ UNCHANGED <<cfg, abuf, conv, written, keyData, msgVars>>

\* connect.go 93-114: the conversation is created, the SASL-initial-response
\* written, then writeAndRead
Authenticate ==
    /\ pc = "authenticate"
    /\ IF ~NewClientOK(cfg.user, cfg.password)
       THEN /\ Return(Err("scram", "prohibited character"))
            /\ UNCHANGED <<abuf, conv, written, hist>>
       ELSE LET st == Step(NewConv, cfg.user, <<>>) IN
            /\ conv' = st.conv
            /\ written' = Append(written, SASLInitialResponseMsg(st.msg))
            /\ \E io \in IoOutcomes :
                 /\ hist' = [hist EXCEPT !.scram = TRUE, !.io = io]
                 /\ IF ~Failed(io)
                    THEN pc' = "auth_first" /\ abuf' = EmptyBuf /\ UNCHANGED result
                    ELSE Return(IoError(io)) /\ UNCHANGED abuf
    /\ UNCHANGED <<cfg, buf, closeCalled, keyData, msgVars>>

\* connect.go 116-147: the first message of the reply, Finish, the
\* SASL-response, then writeAndRead
AuthFirst ==
    /\ pc = "auth_first"
    /\ \E sm \in ServerMsgs :
         LET o     == AuthFirstCase(sm.Type, sm.bts, conv, cfg.user)
             taken == [at |-> "auth_first", Type |-> sm.Type, bts |-> sm.bts,
                       w |-> Len(written)]
         IN
         /\ conv' = o.conv
         /\ IF o.k = "next"
            THEN /\ written' = Append(written, SASLResponseMsg(o.msg))
                 /\ \E io \in IoOutcomes :
                      /\ hist' = [hist EXCEPT !.last = taken, !.io = io]
                      /\ IF ~Failed(io)
                         THEN /\ pc' = "auth_loop"
                              /\ abuf' = EmptyBuf
                              /\ UNCHANGED result
                         ELSE /\ Return(IoError(io))
                              /\ abuf' = [MsgType |-> sm.Type, msg |-> o.rest,
                                          n |-> 1]
            ELSE /\ Return(o.err)
                 /\ hist' = [hist EXCEPT !.last = taken]
                 /\ abuf' = [MsgType |-> sm.Type, msg |-> o.rest, n |-> 1]
                 /\ UNCHANGED written
    /\ UNCHANGED <<cfg, buf, closeCalled, keyData, msgVars>>

\* connect.go 149-179: one turn of authenticate's final "for buf.Next()"
AuthLoop ==
    /\ pc = "auth_loop"
    /\ \/ /\ Unread(abuf)
          /\ Return(Panic(FinishText(abuf.MsgType)))
          /\ UNCHANGED <<abuf, conv, hist>>
       \/ /\ ~Unread(abuf)
          /\ abuf.n >= 1
          /\ pc' = "connect"
          /\ UNCHANGED <<abuf, conv, hist, result>>
       \/ /\ ~Unread(abuf)
          /\ abuf.n < MaxReply
          /\ \E sm \in ServerMsgs :
               LET o      == AuthLoopCase(sm.Type, sm.bts, conv, cfg.user)
                   status == PopUint32(sm.bts)
                   rcv    == PopString(status.rest)
               IN
               /\ abuf' = [MsgType |-> sm.Type, msg |-> o.rest, n |-> abuf.n + 1]
               /\ conv' = o.conv
               /\ hist' = [hist EXCEPT
                     !.last = [at |-> "auth_loop", Type |-> sm.Type, bts |-> sm.bts,
                                w |-> Len(written)],
                     !.ready = @ \/ (sm.Type = ReadyForCommand /\ o.k = "next"),
                     !.rejected = /\ sm.Type = Authentication
                                  /\ status.ok /\ status.val = SASLFinal
                                  /\ rcv.ok
                                  /\ ~Step(conv, cfg.user, rcv.val).ok,
                     !.keySent = IF sm.Type = ServerKeyData /\ o.k = "next"
                                 THEN Take(sm.bts, KeyDataLen) ELSE @]
               /\ IF o.k = "next" THEN pc' = "auth_loop" /\ UNCHANGED result
                  ELSE Return(o.err)
    /\ UNCHANGED <<cfg, buf, written, closeCalled, keyData, msgVars>>

Next == Connect \/ ConnectLoop \/ Authenticate \/ AuthFirst \/ AuthLoop

Spec == Init /\ [][Next]_vars

\* connect runs in the caller's goroutine as straight-line code: as long as
\* a step of the call remains, one is taken
SpecFair == Spec /\ WF_vars(Next)

-----------------------------------------------------------------------------
(* One Message of the reader, read by any sequence of operations; a panic  *)
(* is recovered by the caller, as reader_test.go does.                     *)

ByteVals == {0, 1, 127}
MsgTypes == {10, Authentication}

\* byte strings shaped like those of reader_test.go; every window of 4 or 8
\* bytes an operation can read as an integer stays below 2^31
TestVectors ==
    {<<255>>, <<255, 255>>, <<127, 255, 255, 255>>,
     <<0, 0, 0, 0, 127, 255, 255, 255>>,
     <<0, 0, 0, 0, 0, 0, 0, 0, 0, 0, 0, 0, 1, 2, 3, 4>>,
     <<0, 0, 0, 3, 1, 2, 3>>,
     <<0, 0, 0, 2, 104, 105>>}

MsgBytes == UNION {[1..k -> ByteVals] : k \in 0..MaxLen} \cup TestVectors

InitMsg ==
    /\ InitConn
    /\ cfg = [database |-> <<>>, user |-> <<117>>, password |-> <<112>>]
    /\ m \in [Type : MsgTypes, bts : MsgBytes]
    /\ pre = m.bts
    /\ ret = NoOp

\* the operation op(arg) gave r = [ok, val, rest]
Did(op, arg, r) ==
    /\ pre' = m.bts
    /\ ret' = [op |-> op, arg |-> arg, ok |-> r.ok, val |-> r.val,
               text |-> IF r.ok THEN "" ELSE "buffer underrun"]
    /\ UNCHANGED connVars

MsgDiscard ==
    \E n \in 0..(MaxLen + 1) :
        LET r == Discard(m.bts, n) IN
        /\ m' = [m EXCEPT !.bts = r.rest]
        /\ Did("Discard", n, r)

MsgPopUint8 ==
    LET r == PopUint8(m.bts) IN
    /\ m' = [m EXCEPT !.bts = r.rest]
    /\ Did("PopUint8", 0, r)

MsgPopUint16 ==
    LET r == PopUint16(m.bts) IN
    /\ m' = [m EXCEPT !.bts = r.rest]
    /\ Did("PopUint16", 0, r)

MsgPopUint32 ==
    LET r == PopUint32(m.bts) IN
    /\ m' = [m EXCEPT !.bts = r.rest]
    /\ Did("PopUint32", 0, r)

MsgPeekUint32 ==
    LET r == PeekUint32(m.bts) IN
    /\ m' = [m EXCEPT !.bts = r.rest]
    /\ Did("PeekUint32", 0, r)

MsgPopUint64 ==
    LET r == PopUint64(m.bts) IN
    /\ m' = [m EXCEPT !.bts = r.rest]
    /\ Did("PopUint64", 0, r)

MsgPopUUID ==
    LET r == PopUUID(m.bts) IN
    /\ m' = [m EXCEPT !.bts = r.rest]
    /\ Did("PopUUID", 0, r)

\* a panic on the data may leave the length prefix read or unread
MsgPopBytes ==
    LET r == PopBytes(m.bts) IN
    /\ \E rest \in {r.rest, IF r.ok THEN r.rest ELSE m.bts} :
           m' = [m EXCEPT !.bts = rest]
    /\ Did("PopBytes", 0, r)

MsgPopString ==
    LET r == PopString(m.bts) IN
    /\ \E rest \in {r.rest, IF r.ok THEN r.rest ELSE m.bts} :
           m' = [m EXCEPT !.bts = rest]
    /\ Did("PopString", 0, r)

MsgFinish ==
    LET r == Finish(m.Type, m.bts) IN
    /\ pre' = m.bts
    /\ ret' = [op |-> "Finish", arg |-> 0, ok |-> r.ok, val |-> 0, text |-> r.text]
    /\ UNCHANGED <<m, connVars>>

NextMsg ==
    \/ MsgDiscard \/ MsgPopUint8 \/ MsgPopUint16 \/ MsgPopUint32 \/ MsgPeekUint32
    \/ MsgPopUint64 \/ MsgPopUUID \/ MsgPopBytes \/ MsgPopString \/ MsgFinish

SpecMsg == InitMsg /\ [][NextMsg]_vars

-----------------------------------------------------------------------------
(* Properties *)

Last       == hist.last
LastStatus == BE(Take(Last.bts, 4))
LastMajor  == BE(SubSeq(Last.bts, 1, 2))
LastMinor  == BE(SubSeq(Last.bts, 3, 4))

\* the current message is an authentication message whose status can be read
LastIsAuth(at) ==
    /\ Last.at = at
    /\ Last.Type = Authentication
    /\ Len(Last.bts) >= 4

\* the current message is a server-handshake of another version than 0.8
BadHandshake ==
    /\ Last.at = "connect"
    /\ Last.Type = ServerHandshake
    /\ Len(Last.bts) >= 4
    /\ <<LastMajor, LastMinor>> # <<0, 8>>

\* the call is over: no step of it can be taken any more
Over == pc = "done" /\ ~ENABLED Next

\* C1 (as stated): a server-handshake of any version but 0.8 closes the
\* transport and fails connect with the unsupported-protocol-version error
\* naming that version, whatever closing the transport returns; nothing is
\* written afterwards.
C1_AnyCloseResult ==
    BadHandshake =>
        /\ closeCalled
        /\ Over
        /\ Len(written) = Last.w
        /\ result = Err("version", "unsupported protocol version: "
                                   \o Dec(LastMajor) \o "." \o Dec(LastMinor))

\* C1 (amended): a server-handshake of any version but 0.8 closes the
\* transport and fails connect: with the unsupported-protocol-version error
\* naming that version when Close succeeds, with Close's own error when it
\* fails; in both cases nothing is written afterwards.
C1_VersionGate ==
    BadHandshake =>
        /\ closeCalled
        /\ Over
        /\ Len(written) = Last.w
        /\ result = IF hist.closeFailed THEN CloseError
                    ELSE Err("version", "unsupported protocol version: "
                                        \o Dec(LastMajor) \o "." \o Dec(LastMinor))

C1_Witness ==
    /\ BadHandshake
    /\ Last.bts = <<0, 0, 0, 9>>
    /\ closeCalled
    /\ result.text = "unsupported protocol version: 0.9"

\* C2: once an error-response is the current message, at any of the three
\* read points, connect has failed with the decoded error, has written
\* nothing since and takes no further step.
C2_ErrorResponseFails ==
    (Last.at # "none" /\ Last.Type = ErrorResponse) =>
        /\ Over
        /\ result = [kind |-> "server", text |-> "", data |-> Last.bts]
        /\ Len(written) = Last.w

C2_Witness ==
    /\ Last.at = "auth_loop"
    /\ Last.Type = ErrorResponse
    /\ Last.bts # <<>>
    /\ hist.ready
    /\ result.kind = "server"

\* C3 (as stated): connect returns nil only if a ready-for-command message
\* was consumed during the call.
C3_SuccessNeedsReady ==
    (pc = "done" /\ result = Nil) => hist.ready

\* C4: when the stepper rejects the server-final string of a status-0xc
\* message, connect fails with the stepper's error and takes no further
\* step, so no later message can turn the outcome into success.
C4_FinalRejected ==
    hist.rejected =>
        /\ Over
        /\ result.kind = "scram"
        /\ result.text \in {"server validation failed",
                            "Conversation already completed"}

C4_Witness ==
    /\ hist.rejected
    /\ Last.bts = PushUint32(12) \o PushString(ServerFinalBad)
    /\ result = Err("scram", "server validation failed")

\* C5 (as stated): a connect that went through the SASL exchange returns
\* nil only after the stepper accepted a server-final string.
C5_SuccessNeedsVerified ==
    (pc = "done" /\ result = Nil /\ hist.scram) => conv.valid

\* C6: an authentication message with status 0 in connect's loop writes
\* nothing and does not call authenticate; and after the whole reply
\* server-handshake(0,8), key-data, authentication(0), ready-for-command
\* connect returns nil having written the client handshake alone.
C6_StatusZeroContinues ==
    /\ (LastIsAuth("connect") /\ LastStatus = 0) =>
           /\ Len(written) = Last.w
           /\ pc \in {"connect", "done"}
           /\ buf.msg = Drop(Last.bts, 4)
           /\ result \in {None, Nil, Panic(FinishText(Authentication))}
    /\ (hist.trust = Len(TrustScenario) /\ pc = "done") =>
           /\ result = Nil
           /\ Len(written) = 1
           /\ written[1][1] = ClientHandshake
           /\ ~hist.scram

C6_Witness ==
    /\ hist.trust = Len(TrustScenario)
    /\ pc = "done"
    /\ result = Nil
    /\ Last.at = "connect"
    /\ Last.Type = ReadyForCommand

\* the message types each read point handles
Handled(at) ==
    CASE at = "connect"    -> {ServerHandshake, ServerKeyData, ReadyForCommand,
                               Authentication, ErrorResponse}
      [] at = "auth_first" -> {Authentication, ErrorResponse}
      [] at = "auth_loop"  -> {Authentication, ServerKeyData, ReadyForCommand,
                               ErrorResponse}
      [] OTHER             -> {Last.Type}

\* C7: a current message of a type its read point does not handle fails
\* connect with the unexpected-message-type error carrying the type tag.
C7_UnexpectedType ==
    (Last.Type \notin Handled(Last.at)) =>
        /\ Over
        /\ result = Err("type", "unexpected message type: 0x" \o Hex(Last.Type))

C7_Witness ==
    /\ Last.at = "auth_loop"
    /\ Last.Type = ServerHandshake
    /\ result.text = "unexpected message type: 0x76"

\* C8: the first message after the SASL-initial-response, when it is an
\* authentication message of a status other than 0xb, fails connect with
\* the unexpected-status error before any SASL-response is written; in the
\* final loop a status other than 0 and 0xc fails it the same way.
C8_StatusChecked ==
    /\ (LastIsAuth("auth_first") /\ LastStatus # 11) =>
           /\ Over
           /\ Len(written) = Last.w
           /\ written[Len(written)][1] = AuthenticationSASLInitialResponse
           /\ result = Err("status", "unexpected authentication status: 0x"
                                     \o Hex(LastStatus))
    /\ (LastIsAuth("auth_loop") /\ LastStatus \notin {0, 12}) =>
           /\ Over
           /\ result = Err("status", "unexpected authentication status: 0x"
                                     \o Hex(LastStatus))

C8_Witness ==
    /\ LastIsAuth("auth_first")
    /\ LastStatus = 12
    /\ result.text = "unexpected authentication status: 0xc"

ReadOps ==
    {"Discard", "PopUint8", "PopUint16", "PopUint32", "PopUint64", "PopUUID",
     "PopBytes", "PopString"}

\* the bytes a fixed-width operation needs
Width ==
    CASE ret.op = "Discard"   -> ret.arg
      [] ret.op = "PopUint8"  -> 1
      [] ret.op = "PopUint16" -> 2
      [] ret.op = "PopUint32" -> 4
      [] ret.op = "PopUint64" -> 8
      [] ret.op = "PopUUID"   -> 16
      [] OTHER                -> 4

\* the length the prefix of a byte string declares
Declared == BE(Take(pre, 4))

\* the last operation found fewer bytes than it needs
Short ==
    \/ Len(pre) < Width
    \/ /\ ret.op \in {"PopBytes", "PopString"}
       /\ Len(pre) - 4 < Declared

\* C9: Finish panics, with the text naming the message type, exactly when
\* unread bytes remain, whatever was read before.
C9_Finish ==
    (ret.op = "Finish") =>
        /\ ret.ok <=> (Len(pre) = 0)
        /\ ~ret.ok => ret.text = "cannot finish: unread data in buffer (message type: 0x"
                                 \o Hex(m.Type) \o ")"
        /\ (~ret.ok /\ m.Type = 10) =>
               ret.text = "cannot finish: unread data in buffer (message type: 0xa)"

C9_Witness ==
    /\ ret.op = "Finish"
    /\ ~ret.ok
    /\ Len(pre) = 1
    /\ m.Type = 10

\* C10: a read operation that needs more bytes than remain panics; one that
\* returns a byte string returns all the bytes its length prefix declares.
C10_Underrun ==
    (ret.op \in ReadOps) =>
        /\ Short => ~ret.ok
        /\ (ret.ok /\ ret.op \in {"PopBytes", "PopString"}) =>
               ret.val = SubSeq(pre, 5, 4 + Declared)

C10_Witness ==
    /\ ret.op = "PopString"
    /\ ~ret.ok
    /\ Len(pre) > 4
    /\ Len(pre) - 4 < Declared

-----------------------------------------------------------------------------
(* Properties of the key data, the writes and the transport failures *)

\* C11 (as stated): after a successful connect the connection holds the
\* 32 bytes of the key-data message the server sent.
C11_KeyDataRetained ==
    (pc = "done" /\ result = Nil /\ hist.keySent # <<>>) =>
        keyData = hist.keySent

\* the type tag of the i-th message written
WrittenType(i) == written[i][1]

\* the status carried by a taken message
StatusOf(msg) == BE(Take(msg.bts, 4))

\* the order the messages written so far respect
WriteOrder ==
    /\ (Last.at # "none") => Last.w >= 1
    /\ \A i \in 1..Len(written) :
         /\ (i = 1) <=> (WrittenType(i) = ClientHandshake)
         /\ (i > 1) => WrittenType(i) \in {AuthenticationSASLInitialResponse,
                                          AuthenticationSASLResponse}
         /\ (WrittenType(i) = AuthenticationSASLResponse) =>
                WrittenType(i - 1) = AuthenticationSASLInitialResponse

\* what a step that writes a message has read before
WriteStep ==
    (Len(written') > Len(written)) =>
        /\ Len(written') = Len(written) + 1
        /\ (written # <<>>) => hist'.last.w = Len(written)
        /\ (written'[Len(written')][1] = AuthenticationSASLInitialResponse) =>
               /\ hist.last.at = "connect"
               /\ hist.last.Type = Authentication
               /\ StatusOf(hist.last) # 0
        /\ (written'[Len(written')][1] = AuthenticationSASLResponse) =>
               /\ hist'.last.at = "auth_first"
               /\ hist'.last.Type = Authentication
               /\ StatusOf(hist'.last) = 11

\* C12: the client handshake is written first, before any server message
\* is processed; a SASL-initial-response only after an authentication
\* message of a nonzero status was read; a SASL-response only after its
\* SASL-initial-response and the authentication(0xb) reply to it; and a
\* message is read between any two writes.
C12_WritesOrdered == [][WriteStep]_vars /\ []WriteOrder

C12_Witness ==
    /\ Len(written) = 3
    /\ WrittenType(3) = AuthenticationSASLResponse
    /\ pc = "auth_loop"

\* C13: once a writeAndRead has failed, connect has returned that error,
\* no message was taken after the failed write and no step remains.
C13_IoErrorReturned ==
    (hist.io # "ok") =>
        /\ Over
        /\ result = [kind |-> "io", text |-> hist.io, data |-> <<>>]
        /\ Last.w < Len(written)

C13_Witness ==
    /\ hist.io = "context deadline exceeded"
    /\ WrittenType(Len(written)) = AuthenticationSASLResponse
    /\ result.text = "context deadline exceeded"

\* a string behind its 4-byte length (strings shorter than 256 bytes)
Prefixed(str) == <<0, 0, 0, Len(str)>> \o str

\* the client handshake, byte by byte
HandshakePayload ==
    <<0, 0, 0, 8, 0, 2>>
    \o Prefixed(<<100, 97, 116, 97, 98, 97, 115, 101>>) \o Prefixed(cfg.database)
    \o Prefixed(<<117, 115, 101, 114>>) \o Prefixed(cfg.user)
    \o <<0, 0>>

\* C14: every message written is a type tag, then the 4-byte big-endian
\* length of the payload plus 4, then the payload; the first one is the
\* client handshake: 0, 8, two parameters ("database", "user"), no extension.
C14_Framing ==
    /\ \A i \in 1..Len(written) :
         /\ Len(written[i]) >= 5
         /\ written[i][2] * 16777216 + written[i][3] * 65536
              + written[i][4] * 256 + written[i][5] = 4 + (Len(written[i]) - 5)
    /\ (written # <<>>) =>
           written[1] = <<86, 0, 0, 0, 4 + Len(HandshakePayload)>> \o HandshakePayload

C14_Witness ==
    /\ Len(written) = 3
    /\ cfg.database = <<100>>
    /\ cfg.user = <<117>>
    /\ written[1] = <<86, 0, 0, 0, 42, 0, 0, 0, 8, 0, 2,
                      0, 0, 0, 8, 100, 97, 116, 97, 98, 97, 115, 101,
                      0, 0, 0, 1, 100,
                      0, 0, 0, 4, 117, 115, 101, 114,
                      0, 0, 0, 1, 117,
                      0, 0>>
    /\ written[3] = <<114, 0, 0, 0, 11, 0, 0, 0, 3, 99, 61, 112>>

-----------------------------------------------------------------------------
(* Properties of the successful read operations *)

RECURSIVE Pow256(_)
Pow256(k) == IF k = 0 THEN 1 ELSE 256 * Pow256(k - 1)

\* the unsigned integer a byte string spells, most significant byte first
RECURSIVE Spelled(_, _)
Spelled(str, i) ==
    IF i > Len(str) THEN 0
    ELSE (IF str[i] = 0 THEN 0 ELSE str[i] * Pow256(Len(str) - i))
         + Spelled(str, i + 1)

\* the bytes the last operation, having succeeded, must have removed
Consumed ==
    IF ret.op \in {"PopBytes", "PopString"} THEN 4 + Declared ELSE Width

\* C15: a successful read operation removes its encoded width from the
\* front of the message and nothing more, and returns what those bytes
\* hold: a big-endian unsigned integer, the 16 bytes of a UUID in order,
\* the bytes behind a length prefix; a message holding exactly one value
\* is left empty.
C15_ExactWidth ==
    (ret.op \in ReadOps /\ ret.ok) =>
        /\ Len(pre) >= Consumed
        /\ m.bts = SubSeq(pre, Consumed + 1, Len(pre))
        /\ (Len(pre) = Consumed) => m.bts = <<>>
        /\ (ret.op \in {"PopUint8", "PopUint16", "PopUint32", "PopUint64"}) =>
               ret.val = Spelled(SubSeq(pre, 1, Width), 1)
        /\ (ret.op = "PopUUID") => ret.val = SubSeq(pre, 1, 16)
        /\ (ret.op \in {"PopBytes", "PopString"}) =>
               ret.val = SubSeq(pre, 5, 4 + Declared)

C15_Witness ==
    /\ ret.op = "PopUUID"
    /\ ret.ok
    /\ ret.val = <<0, 0, 0, 0, 0, 0, 0, 0, 0, 0, 0, 0, 1, 2, 3, 4>>
    /\ m.bts = <<>>

\* a successful PeekUint32 left the message as it was
PeekKeeps ==
    (ret.op = "PeekUint32" /\ ret.ok) =>
        /\ m.bts = pre
        /\ ret.val = Spelled(SubSeq(pre, 1, 4), 1)

\* a PopUint32 or PeekUint32 right after a successful PeekUint32 agrees
PeekThenRead ==
    (ret.op = "PeekUint32" /\ ret.ok /\ ret'.op \in {"PopUint32", "PeekUint32"}) =>
        /\ ret'.ok
        /\ ret'.val = ret.val

\* C16: PeekUint32 returns the big-endian value of the next 4 bytes and
\* leaves the unread bytes unchanged, so a PopUint32 or a further
\* PeekUint32 right after it returns the same value.
C16_PeekUint32 == []PeekKeeps /\ [][PeekThenRead]_vars

C16_Witness ==
    /\ ret.op = "PeekUint32"
    /\ ret.ok
    /\ ret.val = 2147483647
    /\ pre = <<127, 255, 255, 255>>
    /\ m.bts = pre

-----------------------------------------------------------------------------
(* Properties of the method list and of the conversation it starts *)

\* where n length-prefixed names end that start behind the first `from`
\* bytes of bts; -1 when bts is too short for them
RECURSIVE NamesEnd(_, _, _)
NamesEnd(bts, from, n) ==
    IF n = 0 THEN from
    ELSE IF Len(bts) < from + 4 THEN -1
    ELSE LET len == Spelled(SubSeq(bts, from + 1, from + 4), 1)
         IN  IF Len(bts) < from + 4 + len THEN -1
             ELSE NamesEnd(bts, from + 4 + len, n - 1)

\* connect's loop took an authentication message of a nonzero status last
AuthRequired == LastIsAuth("connect") /\ StatusOf(Last) # 0

\* where the method list of that message ends
MethodsEnd ==
    IF Len(Last.bts) < 8 THEN -1
    ELSE NamesEnd(Last.bts, 8, Spelled(SubSeq(Last.bts, 5, 8), 1))

\* msg is a SASL-initial-response naming the mechanism "SCRAM-SHA-256"
NamesScram(msg) ==
    /\ Len(msg) >= 22
    /\ msg[1] = AuthenticationSASLInitialResponse
    /\ SubSeq(msg, 6, 22) = <<0, 0, 0, 13, 83, 67, 82, 65, 77, 45,
                              83, 72, 65, 45, 50, 53, 54>>

\* the status, the count and the names are gone from the message and
\* authenticate was called; what it wrote names SCRAM-SHA-256
MethodsSkipped ==
    (AuthRequired /\ MethodsEnd # -1) =>
        /\ buf.msg = SubSeq(Last.bts, MethodsEnd + 1, Len(Last.bts))
        /\ \/ pc = "authenticate" /\ Len(written) = Last.w
           \/ /\ pc \in {"auth_first", "done"}
              /\ Len(written) = Last.w + 1
              /\ NamesScram(written[Last.w + 1])
           \/ /\ pc = "done"
              /\ Len(written) = Last.w
              /\ result.kind = "scram"
              /\ \E i \in 1..Len(cfg.user) : cfg.user[i] = 0

\* every SASL-initial-response written names SCRAM-SHA-256
AlwaysScram ==
    \A i \in 1..Len(written) :
        (WrittenType(i) = AuthenticationSASLInitialResponse) =>
            NamesScram(written[i])

\* authenticate, once called with a user name SASLprep accepts, writes
\* the SASL-initial-response
ConversationStarts ==
    (pc = "authenticate" /\ pc' # pc /\ \A i \in 1..Len(cfg.user) : cfg.user[i] # 0) =>
        /\ Len(written') = Len(written) + 1
        /\ NamesScram(written'[Len(written')])

\* C17: on an authentication message of a nonzero status connect consumes
\* the method count and exactly that many length-prefixed names, then
\* starts the conversation whatever the names are: the
\* SASL-initial-response names the mechanism "SCRAM-SHA-256".
C17_MethodsIgnored ==
    []MethodsSkipped /\ []AlwaysScram /\ [][ConversationStarts]_vars

C17_Witness ==
    /\ Last.at = "connect"
    /\ Last.Type = Authentication
    /\ Last.bts = <<0, 0, 0, 10, 0, 0, 0, 2, 0, 0, 0, 1, 80, 0, 0, 0, 1, 81>>
    /\ pc = "auth_first"
    /\ Len(written) = 2
    /\ NamesScram(written[2])

-----------------------------------------------------------------------------
(* Properties of the read loops *)

\* the panic of a Next() that finds unread bytes in a handled message
LoudText(type) ==
    "cannot finish: unread data in buffer (message type: 0x"
    \o (CASE type = ServerHandshake -> "76"
          [] type = ServerKeyData   -> "4b"
          [] type = ReadyForCommand -> "5a"
          [] type = Authentication  -> "52"
          [] OTHER                  -> "??")
    \o ")"

Loud(type) == [kind |-> "panic", text |-> LoudText(type), data |-> <<>>]

\* connect does not return nil over unread bytes
NoSilentSuccess ==
    (pc = "done" /\ result = Nil) => (buf.msg = <<>> /\ abuf.msg = <<>>)

\* a loop takes the next message only when the current one is used up, and
\* with bytes of it left its next turn panics, nothing written or read
NoSilentSkip ==
    /\ (buf'.n > buf.n) => buf.msg = <<>>
    /\ (pc = "auth_loop" /\ abuf'.n > abuf.n) => abuf.msg = <<>>
    /\ (pc = "connect" /\ buf.msg # <<>>) =>
           /\ pc' = "done"
           /\ result' = Loud(buf.MsgType)
           /\ UNCHANGED <<buf, abuf, written, conv>>
    /\ (pc = "auth_loop" /\ abuf.msg # <<>>) =>
           /\ pc' = "done"
           /\ result' = Loud(abuf.MsgType)
           /\ UNCHANGED <<buf, abuf, written, conv>>

\* C18: in the read loops of connect and authenticate a handled message is
\* consumed exactly before the loop advances: a server-handshake, key-data,
\* ready-for-command or authentication message longer than the fields its
\* handler reads is rejected with a panic naming its type, never skipped.
C18_ConsumedExactly == []NoSilentSuccess /\ [][NoSilentSkip]_vars

C18_Witness ==
    /\ pc = "done"
    /\ Last.at = "connect"
    /\ Last.Type = ReadyForCommand
    /\ Last.bts = <<0, 1, 73, 0, 1, 0, 0, 0, 0>>
    /\ buf.msg = <<0, 1, 0, 0, 0, 0>>
    /\ result = Loud(ReadyForCommand)

-----------------------------------------------------------------------------
(* Properties of repetition within one call *)

\* how many messages of a type were written
Count(type) == Cardinality({i \in 1..Len(written) : WrittenType(i) = type})

\* C19 (as stated): the client handshake is written exactly once, and at
\* most one SASL-initial-response and at most one SASL-response are
\* written, for every sequence of server messages.
C19_AtMostOnce ==
    /\ (pc # "start") => Count(ClientHandshake) = 1
    /\ Count(AuthenticationSASLInitialResponse) <= 1
    /\ Count(AuthenticationSASLResponse) <= 1

\* one conversation for each authentication message of a nonzero status
\* that connect's loop took, one SASL-response at most in each
OncePerChallenge ==
    /\ (pc = "start") => written = <<>>
    /\ (pc # "start") => Count(ClientHandshake) = 1
    /\ Count(AuthenticationSASLInitialResponse) <= hist.challenges
    /\ Count(AuthenticationSASLResponse) <= Count(AuthenticationSASLInitialResponse)
    /\ (result # None) => pc = "done"

\* an error ends the call in the step that meets it, and nothing is done
\* after the call has returned
NoRetry ==
    /\ (result' # result) => pc' = "done"
    /\ pc # "done"
    /\ (pc \in {"authenticate", "auth_first", "auth_loop"} /\ pc' = "connect") =>
           (result' = None /\ written' = written)

\* C19 (amended): the client handshake is written exactly once; a
\* conversation is started once for each authentication message of a
\* nonzero status taken by connect's loop, and no more often, with at most
\* one SASL-response in each; once authenticate fails connect returns its
\* error and nothing further is written.
C19_OncePerChallenge == []OncePerChallenge /\ [][NoRetry]_vars

C19_Witness ==
    /\ hist.challenges = 2
    /\ Count(AuthenticationSASLInitialResponse) = 2
    /\ Count(AuthenticationSASLResponse) = 1
    /\ pc = "auth_first"

-----------------------------------------------------------------------------
(* Termination *)

\* connect has returned nil or an error, or has panicked on an underrun
Returned ==
    /\ pc = "done"
    /\ \/ result = Nil
       \/ result.kind \in {"version", "type", "status", "close", "scram",
                           "server", "io"}
       \/ result = UnderrunPanic

\* ... or has panicked on the unread bytes of a message
ReturnedOrLoud ==
    \/ Returned
    \/ pc = "done" /\ result \in {Loud(buf.MsgType), Loud(abuf.MsgType)}

\* each turn of a read loop that goes on has taken one buffered message
LoopConsumes ==
    /\ (pc = "connect" /\ pc' = "connect") => buf'.n = buf.n + 1
    /\ (pc = "auth_loop" /\ pc' = "auth_loop") => abuf'.n = abuf.n + 1
    /\ (pc = "connect") => buf'.n \in {buf.n, buf.n + 1}
    /\ (pc \in {"connect", "auth_loop"} /\ written' # written) => FALSE

\* C20 (as stated): connect terminates, returning nil, returning an error
\* or panicking on a buffer underrun.
C20_ThreeOutcomes == <>Returned

\* C20 (amended): connect terminates, returning nil, returning an error or
\* panicking on a buffer underrun or on the unread bytes of a message; a
\* turn of a read loop takes one buffered message and waits for nothing.
C20_Terminates == <>[]ReturnedOrLoud /\ [][LoopConsumes]_vars

C20_Witness ==
    /\ pc = "done"
    /\ Last.at = "auth_first"
    /\ Last.Type = Authentication
    /\ abuf.msg = <<0>>
    /\ result = Loud(Authentication)

====
